---- MODULE Spec2Model ----
(***************************************************************************)
(* Model of the simple-game match orchestrator (src/src/main.rs) and of    *)
(* its competitor client (src/src/client.rs).                              *)
(*                                                                         *)
(* The orchestrator is single-threaded.  Concurrency exists only inside    *)
(* one blocking I/O call: read_line and send_line each start a worker      *)
(* thread and the caller polls for completion until a deadline.            *)
(*                                                                         *)
(* Clients are numbered 1..NumClients (the source numbers them from 0).    *)
(* A u32 is held as a pair <<hi, lo>> of 16-bit halves, so that u32::MAX   *)
(* and 0xDEADBEEF are represented exactly.                                 *)
(***************************************************************************)
EXTENDS Integers, Sequences, FiniteSets, TLC

\* ---------------------------------------------------------- configuration

\* The configuration checked: config.programs, the competitor scripts in
\* match order, and config.rounds.
Programs == <<"a.py", "b.py", "c.py">>

NumClients == Len(Programs)

Rounds == 2

Clients == 1..NumClients

\* ------------------------------------------------------------ u32 values

\* 2^16: a u32 is <<hi, lo>> with value hi * Half + lo.
Half == 2 ^ 16

\* u32::max_value(), the sentinel of an errored client.
U32Max == <<Half - 1, Half - 1>>

\* 0xDEADBEEF, the value a freshly constructed client holds.
NumInit == <<57005, 48879>>

\* a < b on u32 values.
U32Less(a, b) == a[1] < b[1] \/ (a[1] = b[1] /\ a[2] < b[2])

\* ------------------------------------------------- lines of a competitor

\* What a blocking read_line on competitor output may yield: raw lines (a
\* sequence of characters, newline included) and "" at end of file.
L_ready == <<"r", "e", "a", "d", "y", "\n">>
L_two == <<"2", "\n">>
L_five == <<" ", "5", "\n">>
L_over == <<"4", "2", "9", "4", "9", "6", "7", "2", "9", "6", "\n">>
L_junk == <<"x", "\n">>
L_eof == <<>>

RawLines == {L_ready, L_two, L_five, L_over, L_junk, L_eof}

IsSpace(ch) == ch \in {" ", "\n", "\t", "\r"}

\* str::trim: strip leading and trailing whitespace.
RECURSIVE TrimStart(_)
TrimStart(s) ==
    IF s = <<>> THEN s
    ELSE IF IsSpace(Head(s)) THEN TrimStart(Tail(s))
    ELSE s

RECURSIVE TrimEnd(_)
TrimEnd(s) ==
    IF s = <<>> THEN s
    ELSE IF IsSpace(s[Len(s)]) THEN TrimEnd(SubSeq(s, 1, Len(s) - 1))
    ELSE s

Trim(s) == TrimEnd(TrimStart(s))

Digits == <<"0", "1", "2", "3", "4", "5", "6", "7", "8", "9">>

IsDigit(ch) == \E d \in 1..10 : Digits[d] = ch

DigitVal(ch) == (CHOOSE d \in 1..10 : Digits[d] = ch) - 1

ParseErr == <<"ParseIntError">>

\* The element of a one-element set. Binding a value through such a set
\* has it computed once where it is used several times.
Only(S) == CHOOSE x \in S : TRUE

\* One step of the decimal accumulation, with the overflow check of u32.
MulAdd(v, d) ==
    LET lo == v[2] * 10 + d
        hi == v[1] * 10 + (lo \div Half)
    IN  IF hi >= Half THEN ParseErr ELSE <<hi, lo % Half>>

RECURSIVE ParseDigits(_, _)
ParseDigits(s, acc) ==
    IF s = <<>> THEN acc
    ELSE IF ~IsDigit(Head(s)) THEN ParseErr
    ELSE Only({IF nxt = ParseErr THEN ParseErr ELSE ParseDigits(Tail(s), nxt) :
                  nxt \in {MulAdd(acc, DigitVal(Head(s)))}})

\* line.parse::<u32>(): an optional "+", then one or more digits, no overflow.
ParseU32(s) ==
    LET body == IF s # <<>> /\ Head(s) = "+" THEN Tail(s) ELSE s
    IN  IF body = <<>> THEN ParseErr ELSE ParseDigits(body, <<0, 0>>)

\* The inverse direction, write!(buf, "{}", x): the decimal digits of a u32.
\* Long division by ten on the two halves.
DivMod10(v) ==
    LET r1 == v[1] % 10
        mid == r1 * Half + v[2]
    IN  [q |-> <<v[1] \div 10, mid \div 10>>, r |-> mid % 10]

RECURSIVE FormatU32(_)
FormatU32(v) ==
    Only({IF dm.q = <<0, 0>> THEN <<Digits[dm.r + 1]>>
          ELSE FormatU32(dm.q) \o <<Digits[dm.r + 1]>> :
          dm \in {DivMod10(v)}})

\* A line with the values in reverse order.
RECURSIVE FormatNumsReversed(_)
FormatNumsReversed(v) ==
    IF v = <<>> THEN <<"\n">>
    ELSE IF Len(v) = 1 THEN FormatU32(v[1]) \o <<"\n">>
    ELSE FormatU32(v[Len(v)]) \o <<" ">>
             \o FormatNumsReversed(SubSeq(v, 1, Len(v) - 1))

\* The line send_nums builds: the values in decimal, space separated, newline.
RECURSIVE FormatNums(_)
FormatNums(v) ==
    IF v = <<>> THEN <<"\n">>
    ELSE IF Len(v) = 1 THEN FormatU32(v[1]) \o <<"\n">>
    ELSE FormatU32(v[1]) \o <<" ">> \o FormatNums(Tail(v))

GameLine == <<"g", "a", "m", "e", "\n">>
EndLine == <<"e", "n", "d", "\n">>
ReadyWord == <<"r", "e", "a", "d", "y">>

\* ------------------------------------------------ play_round: the outcome

\* A scan that never finds a duplicate: set_loose stays empty.
RECURSIVE ScanLooseNone(_, _, _)
ScanLooseNone(v, used, loose) ==
    IF v = <<>> THEN {}
    ELSE ScanLooseNone(Tail(v), used \cup {Head(v)}, loose)

\* The loop over nums filling set_used and set_loose: a value goes to
\* set_loose when inserting it into set_used finds it already there.
RECURSIVE ScanLoose(_, _, _)
ScanLoose(v, used, loose) ==
    IF v = <<>> THEN loose
    ELSE IF Head(v) \in used
         THEN ScanLoose(Tail(v), used, loose \cup {Head(v)})
         ELSE ScanLoose(Tail(v), used \cup {Head(v)}, loose)

\* enumerate().filter(...): the positions whose value is not in set_loose,
\* in position order.
RECURSIVE Survivors(_, _, _)
Survivors(v, i, loose) ==
    IF i > Len(v) THEN <<>>
    ELSE IF v[i] \in loose THEN Survivors(v, i + 1, loose)
    ELSE <<i>> \o Survivors(v, i + 1, loose)

\* sort_by_key, a stable sort: insert p after every entry whose key is not
\* greater than the key of p.
RECURSIVE InsertByKey(_, _, _)
InsertByKey(sorted, p, v) ==
    IF sorted = <<>> THEN <<p>>
    ELSE IF U32Less(v[p], v[Head(sorted)]) THEN <<p>> \o sorted
    ELSE <<Head(sorted)>> \o InsertByKey(Tail(sorted), p, v)

RECURSIVE SortByKey(_, _)
SortByKey(ps, v) ==
    IF ps = <<>> THEN <<>>
    ELSE InsertByKey(SortByKey(SubSeq(ps, 1, Len(ps) - 1), v), ps[Len(ps)], v)

\* RoundOutcome.winners for the collected values v.
RoundWinners(v) ==
    Only({SortByKey(ps, v) : ps \in {Survivors(v, 1, ScanLoose(v, {}, {}))}})

\* ------------------------------------------------- deadlines (milliseconds)

InitReadTimeoutMs == 10000
ReadTimeoutMs == 1000
WriteTimeoutMs == 100

\* ------------------------------------------------------------------ state

VARIABLES
    pc,        \* main: the statement the orchestrator is at
    idx,       \* main, wait_ready, play_round: the client a loop is at
    round,     \* main: the round counter i
    score,     \* main: score[c]
    nums,      \* play_round: the values collected so far in this round
    winners,   \* main: outcome.winners of the round just played
    child,     \* Client.child: "none", "running", "exited" or "reaped"
    state,     \* Client.state
    num,       \* Client.num
    call,      \* the Client method in progress and where it is
    reader,    \* read_line: where the reader worker of this call is
    rbuf,      \* read_line worker: its local buf
    rerr,      \* read_line worker: its local err (TRUE: Some)
    st,        \* read_line: the shared ReadLineState
    stLock,    \* read_line: who holds the mutex around ReadLineState
    ret,       \* read_line: the Result it returned to poll
    writer,    \* send_line: where the writer worker of this call is
    wline,     \* send_line: the bytes the writer worker is to write
    timeoutMs, \* read_line, send_line: the timeout of the call in progress
    rdOld,     \* per client: an abandoned reader worker is still in its read
    wrOld,     \* per client: an abandoned writer worker is not yet done
    ev,        \* the line the writer worker of the call in progress has
               \* delivered to the competitor's stdin in this step
    lastCall,  \* history: the Client method called last in the loop at hand,
               \* the state it found and how its send_line ended
    everErr,   \* history, per client: err() has run on it
    how        \* history, per entry of nums: whether the client was in Error
               \* when the value was collected

mainVars == <<pc, idx, round, score, nums, winners, child, how>>
clientVars == <<state, num, everErr>>
rdVars == <<reader, rbuf, rerr, st, stLock, ret>>
wrVars == <<writer, wline>>
ioVars == <<rdVars, wrVars, timeoutMs>>
oldVars == <<rdOld, wrOld>>
vars == <<mainVars, clientVars, call, ioVars, oldVars, ev, lastCall>>

States == {"Init", "Error", "Wait", "Step", "PostStep", "End"}

NoCall == [fn |-> "none", c |-> 0, at |-> "idle"]
NoEv == [c |-> 0, line |-> <<>>]
NoRet == [ok |-> FALSE, line |-> <<>>]
NoLine == <<>>
NoLast == [fn |-> "none", c |-> 0, st |-> "none", res |-> "none"]
FreshSt == [buf |-> <<>>, done |-> FALSE, error |-> FALSE]

\* Client::from_child for every program of the configuration; idle I/O.
ClientsInit ==
    /\ state = [c \in Clients |-> "Init"]
    /\ num = [c \in Clients |-> NumInit]
    /\ call = NoCall
    /\ reader = "none"
    /\ rbuf = <<>>
    /\ rerr = FALSE
    /\ st = FreshSt
    /\ stLock = "free"
    /\ ret = NoRet
    /\ writer = "none"
    /\ wline = NoLine
    /\ timeoutMs = 0
    /\ rdOld = [c \in Clients |-> FALSE]
    /\ wrOld = [c \in Clients |-> FALSE]
    /\ ev = NoEv
    /\ lastCall = NoLast
    /\ everErr = [c \in Clients |-> FALSE]

\* main up to "Spawning clients": nothing spawned, no score yet.
Init ==
    /\ pc = "spawn"
    /\ idx = 1
    /\ round = 0
    /\ score = <<>>
    /\ nums = <<>>
    /\ winners = <<>>
    /\ child = [c \in Clients |-> "none"]
    /\ how = <<>>
    /\ ClientsInit

\* ---------------------------------------------------------- Client::err

\* An err() that leaves num as it was.
ErrKeepsNum(c) ==
    /\ state' = [state EXCEPT ![c] = "Error"]
    /\ num' = num
    /\ everErr' = [everErr EXCEPT ![c] = TRUE]

\* self.state = State::Error; self.num = u32::max_value().
Err(c) ==
    /\ state' = [state EXCEPT ![c] = "Error"]
    /\ num' = [num EXCEPT ![c] = U32Max]
    /\ everErr' = [everErr EXCEPT ![c] = TRUE]

\* ----------------------------------------------------- Client::read_line

\* read_line up to its polling loop: a fresh ReadLineState, the worker
\* spawned, the timeout chosen from the state, the deadline set.
ReadLineStart(c) ==
    /\ st' = FreshSt
    /\ reader' = "blocked"
    /\ timeoutMs' = IF state[c] = "Init" THEN InitReadTimeoutMs ELSE ReadTimeoutMs
    /\ UNCHANGED <<rbuf, rerr, stLock, ret, wrVars>>

\* Worker: stdout.lock().unwrap().read_line(&mut buf).err() returns: a line
\* (or nothing at end of file), or an I/O error. It needs the stdout lock,
\* which an abandoned reader still in its read holds.
ReaderRead ==
    /\ reader = "blocked"
    /\ ~rdOld[call.c]
    /\ \/ \E line \in RawLines :
            /\ rbuf' = line
            /\ rerr' = FALSE
       \/ /\ rbuf' = <<>>
          /\ rerr' = TRUE
    /\ reader' = "read"
    /\ ev' = NoEv
    /\ UNCHANGED <<mainVars, clientVars, call, st, stLock, ret, wrVars,
                   timeoutMs, oldVars, lastCall>>

\* A worker that publishes buf and done without keeping the state lock.
ReaderPublishUnlocked ==
    /\ reader = "read"
    /\ stLock = "free"
    /\ st' = [st EXCEPT !.buf = Trim(rbuf), !.done = TRUE]
    /\ reader' = "done"
    /\ ev' = NoEv
    /\ UNCHANGED <<mainVars, clientVars, call, rbuf, rerr, stLock, ret, wrVars,
                   timeoutMs, oldVars, lastCall>>

\* Worker: state.lock().unwrap(); st.buf = buf.trim().to_string();
\* st.done = true.
ReaderPublish ==
    /\ reader = "read"
    /\ stLock = "free"
    /\ stLock' = "worker"
    /\ st' = [st EXCEPT !.buf = Trim(rbuf), !.done = TRUE]
    /\ reader' = "done"
    /\ ev' = NoEv
    /\ UNCHANGED <<mainVars, clientVars, call, rbuf, rerr, ret, wrVars,
                   timeoutMs, oldVars, lastCall>>

\* Worker: if let Some(err) = err { st.error = true }; the closure ends, the
\* guard st is dropped and the thread exits.
ReaderExit ==
    /\ reader = "done"
    /\ st' = [st EXCEPT !.error = IF rerr THEN TRUE ELSE @]
    /\ stLock' = "free"
    /\ reader' = "exited"
    /\ ev' = NoEv
    /\ UNCHANGED <<mainVars, clientVars, call, rbuf, rerr, ret, wrVars,
                   timeoutMs, oldVars, lastCall>>

\* Caller: an iteration of the loop that locks the state and finds done.
ReadLineSeesDone ==
    /\ call.at = "read_line"
    /\ stLock = "free"
    /\ st.done
    /\ stLock' = "caller"
    /\ call' = [call EXCEPT !.at = "join"]
    /\ ev' = NoEv
    /\ UNCHANGED <<mainVars, clientVars, reader, rbuf, rerr, st, ret, wrVars,
                   timeoutMs, oldVars, lastCall>>

\* Caller: handle.join() returns; st.error decides between err() with
\* Err("reader thread errored") and Ok(take(st.buf)). The guard is dropped.
ReadLineJoin ==
    /\ call.at = "join"
    /\ reader = "exited"
    /\ reader' = "none"
    /\ stLock' = "free"
    /\ IF st.error
       THEN /\ Err(call.c)
            /\ ret' = [ok |-> FALSE, line |-> <<>>]
       ELSE /\ ret' = [ok |-> TRUE, line |-> st.buf]
            /\ UNCHANGED clientVars
    /\ st' = FreshSt
    /\ rbuf' = <<>>
    /\ rerr' = FALSE
    /\ timeoutMs' = 0
    /\ call' = [call EXCEPT !.at = "line"]
    /\ ev' = NoEv
    /\ UNCHANGED <<mainVars, wrVars, oldVars, lastCall>>

\* A read_line without a deadline of its own: it gives up only once the
\* worker's read has returned.
ReadLineNoDeadline ==
    /\ call.at = "read_line"
    /\ reader # "blocked"
    /\ stLock = "free"
    /\ ~st.done
    /\ Err(call.c)
    /\ ret' = [ok |-> FALSE, line |-> <<>>]
    /\ reader' = "none"
    /\ st' = FreshSt
    /\ rbuf' = <<>>
    /\ rerr' = FALSE
    /\ timeoutMs' = 0
    /\ call' = [call EXCEPT !.at = "line"]
    /\ ev' = NoEv
    /\ UNCHANGED <<mainVars, stLock, wrVars, oldVars, lastCall>>

\* Caller: an iteration that finds done false and Instant::now() past the
\* deadline, timeoutMs after the call began: err() and Err("deadline
\* violated"). The worker is left running: one still in its read keeps the
\* stdout lock.
ReadLineTimeout ==
    /\ call.at = "read_line"
    /\ stLock = "free"
    /\ ~st.done
    /\ Err(call.c)
    /\ ret' = [ok |-> FALSE, line |-> <<>>]
    /\ rdOld' = [rdOld EXCEPT ![call.c] = @ \/ reader = "blocked"]
    /\ reader' = "none"
    /\ st' = FreshSt
    /\ rbuf' = <<>>
    /\ rerr' = FALSE
    /\ timeoutMs' = 0
    /\ call' = [call EXCEPT !.at = "line"]
    /\ ev' = NoEv
    /\ UNCHANGED <<mainVars, stLock, wrVars, wrOld, lastCall>>

\* An abandoned reader's read returns at last; its result is discarded.
OldReaderFinish ==
    /\ \E c \in Clients :
        /\ rdOld[c]
        /\ rdOld' = [rdOld EXCEPT ![c] = FALSE]
    /\ ev' = NoEv
    /\ UNCHANGED <<mainVars, clientVars, call, ioVars, wrOld, lastCall>>

\* ---------------------------------------------------------- Client::poll

\* A poll that also reads in End.
PollCallInEnd(c) ==
    /\ call = NoCall
    /\ lastCall' = [fn |-> "poll", c |-> c, st |-> state[c], res |-> "none"]
    /\ ev' = NoEv
    /\ IF state[c] \in {"Error", "Wait", "PostStep"}
       THEN UNCHANGED <<call, ioVars>>
       ELSE /\ call' = [fn |-> "poll", c |-> c, at |-> "read_line"]
            /\ ReadLineStart(c)
    /\ UNCHANGED <<clientVars, oldVars>>

\* A poll that also reads in Wait.
PollCallInWait(c) ==
    /\ call = NoCall
    /\ lastCall' = [fn |-> "poll", c |-> c, st |-> state[c], res |-> "none"]
    /\ ev' = NoEv
    /\ IF state[c] \in {"Error", "PostStep", "End"}
       THEN UNCHANGED <<call, ioVars>>
       ELSE /\ call' = [fn |-> "poll", c |-> c, at |-> "read_line"]
            /\ ReadLineStart(c)
    /\ UNCHANGED <<clientVars, oldVars>>

\* poll up to the polling loop of read_line: return at once in Error, Wait,
\* PostStep and End, else start read_line.
PollCall(c) ==
    /\ call = NoCall
    /\ lastCall' = [fn |-> "poll", c |-> c, st |-> state[c], res |-> "none"]
    /\ ev' = NoEv
    /\ IF state[c] \in {"Error", "Wait", "PostStep", "End"}
       THEN UNCHANGED <<call, ioVars>>
       ELSE /\ call' = [fn |-> "poll", c |-> c, at |-> "read_line"]
            /\ ReadLineStart(c)
    /\ UNCHANGED <<clientVars, oldVars>>

\* poll after read_line returned Ok(line), the match on the state: "ready"
\* takes Init to Wait, a u32 takes Step to PostStep and is kept in num.
\* FALSE stands for the arms that call err().
PollAccepts(s, line) ==
    IF s = "Init" THEN line = ReadyWord ELSE ParseU32(line) # ParseErr

\* poll after read_line returned: err() on Err, else the match on the
\* state; any state but Init and Step is the unreachable!() arm, a panic.
PollLine ==
    /\ call.fn = "poll"
    /\ call.at = "line"
    /\ ret' = NoRet
    /\ ev' = NoEv
    /\ IF ~ret.ok
       THEN /\ Err(call.c)
            /\ call' = NoCall
       ELSE IF state[call.c] \notin {"Init", "Step"}
       THEN /\ call' = [call EXCEPT !.at = "unreachable"]
            /\ UNCHANGED clientVars
       ELSE IF ~PollAccepts(state[call.c], ret.line)
       THEN /\ Err(call.c)
            /\ call' = NoCall
       ELSE /\ state' = [state EXCEPT ![call.c] =
                            IF @ = "Init" THEN "Wait" ELSE "PostStep"]
            /\ num' = [num EXCEPT ![call.c] =
                            IF state[call.c] = "Init" THEN @ ELSE ParseU32(ret.line)]
            /\ call' = NoCall
            /\ UNCHANGED everErr
    /\ UNCHANGED <<mainVars, reader, rbuf, rerr, st, stLock, wrVars, timeoutMs,
                   oldVars, lastCall>>

\* ----------------------------------------------------- Client::send_line

\* send_line up to its polling loop: the worker spawned with the line, the
\* deadline set.
SendLineStart(line) ==
    /\ writer' = "run"
    /\ wline' = line
    /\ timeoutMs' = WriteTimeoutMs
    /\ UNCHANGED rdVars

\* Worker: stdin.lock(), write_all and flush. It needs the stdin lock, which
\* an abandoned writer not yet done holds. On success the line has reached
\* the competitor; a failure of either call stores err. Then done is stored.
WriterRun ==
    /\ writer = "run"
    /\ ~wrOld[call.c]
    /\ \/ /\ writer' = "ok"
          /\ ev' = [c |-> call.c, line |-> wline]
       \/ /\ writer' = "err"
          /\ ev' = NoEv
    /\ UNCHANGED <<mainVars, clientVars, call, rdVars, wline, timeoutMs,
                   oldVars, lastCall>>

\* What the method that called send_line does when send_line returns:
\* send_nums returns, send_game and send_end still have their assignment.
AfterSendLine ==
    IF call.fn = "send_nums" THEN NoCall ELSE [call EXCEPT !.at = "ret"]

\* Caller: an iteration that finds Instant::now() past the deadline,
\* timeoutMs after the call began (this test comes before the one of done):
\* err(). A worker that has not finished is left running, with the stdin
\* lock it holds or waits for.
SendLineTimeout ==
    /\ call.at = "send_line"
    /\ Err(call.c)
    /\ wrOld' = [wrOld EXCEPT ![call.c] = @ \/ writer = "run"]
    /\ writer' = "none"
    /\ wline' = NoLine
    /\ timeoutMs' = 0
    /\ call' = AfterSendLine
    /\ lastCall' = [lastCall EXCEPT !.res = "timeout"]
    /\ ev' = NoEv
    /\ UNCHANGED <<mainVars, rdVars, rdOld>>

\* Caller: an iteration within the deadline that finds done: err() if the
\* worker stored err.
SendLineDone ==
    /\ call.at = "send_line"
    /\ writer \in {"ok", "err"}
    /\ IF writer = "err" THEN Err(call.c) ELSE UNCHANGED clientVars
    /\ writer' = "none"
    /\ wline' = NoLine
    /\ timeoutMs' = 0
    /\ call' = AfterSendLine
    /\ lastCall' = [lastCall EXCEPT !.res = IF writer = "err" THEN "fail" ELSE "ok"]
    /\ ev' = NoEv
    /\ UNCHANGED <<mainVars, rdVars, oldVars>>

\* The abandoned writers of a client get done at last: their bytes reach
\* the competitor or the write fails. Which lines they held is not kept,
\* so neither outcome is recorded in ev.
OldWriterFinish ==
    /\ \E c \in Clients :
        /\ wrOld[c]
        /\ wrOld' = [wrOld EXCEPT ![c] = FALSE]
        /\ ev' = NoEv
    /\ UNCHANGED <<mainVars, clientVars, call, ioVars, rdOld, lastCall>>

\* ------------------------------------- Client::send_game, send_end, send_nums

\* A send_game without the is_err() check.
SendGameCallUnguarded(c) ==
    /\ call = NoCall
    /\ lastCall' = [fn |-> "send_game", c |-> c, st |-> state[c], res |-> "none"]
    /\ ev' = NoEv
    /\ call' = [fn |-> "send_game", c |-> c, at |-> "send_line"]
    /\ SendLineStart(GameLine)
    /\ UNCHANGED <<clientVars, oldVars>>

\* send_game up to the polling loop of send_line: return at once in Error.
SendGameCall(c) ==
    /\ call = NoCall
    /\ lastCall' = [fn |-> "send_game", c |-> c, st |-> state[c], res |-> "none"]
    /\ ev' = NoEv
    /\ IF state[c] = "Error"
       THEN UNCHANGED <<call, ioVars>>
       ELSE /\ call' = [fn |-> "send_game", c |-> c, at |-> "send_line"]
            /\ SendLineStart(GameLine)
    /\ UNCHANGED <<clientVars, oldVars>>

\* send_game after send_line returned: self.state = State::Step.
SendGameRet ==
    /\ call.fn = "send_game"
    /\ call.at = "ret"
    /\ state' = [state EXCEPT ![call.c] = "Step"]
    /\ call' = NoCall
    /\ ev' = NoEv
    /\ UNCHANGED <<mainVars, num, everErr, ioVars, oldVars, lastCall>>

\* send_end up to the polling loop of send_line: return at once in Error.
SendEndCall(c) ==
    /\ call = NoCall
    /\ lastCall' = [fn |-> "send_end", c |-> c, st |-> state[c], res |-> "none"]
    /\ ev' = NoEv
    /\ IF state[c] = "Error"
       THEN UNCHANGED <<call, ioVars>>
       ELSE /\ call' = [fn |-> "send_end", c |-> c, at |-> "send_line"]
            /\ SendLineStart(EndLine)
    /\ UNCHANGED <<clientVars, oldVars>>

\* send_end after send_line returned: self.state = State::End.
SendEndRet ==
    /\ call.fn = "send_end"
    /\ call.at = "ret"
    /\ state' = [state EXCEPT ![call.c] = "End"]
    /\ call' = NoCall
    /\ ev' = NoEv
    /\ UNCHANGED <<mainVars, num, everErr, ioVars, oldVars, lastCall>>

\* send_nums up to the polling loop of send_line: return at once in Error,
\* else build the line, set the state to Wait and start send_line.
SendNumsCall(c, v) ==
    /\ call = NoCall
    /\ lastCall' = [fn |-> "send_nums", c |-> c, st |-> state[c], res |-> "none"]
    /\ ev' = NoEv
    /\ IF state[c] = "Error"
       THEN UNCHANGED <<call, ioVars, state>>
       ELSE /\ call' = [fn |-> "send_nums", c |-> c, at |-> "send_line"]
            /\ state' = [state EXCEPT ![c] = "Wait"]
            /\ SendLineStart(FormatNums(v))
    /\ UNCHANGED <<num, everErr, oldVars>>

\* The steps of a Client method in progress, of its worker and of the
\* abandoned workers.
ClientStep ==
    \/ ReaderRead
    \/ ReaderPublish
    \/ ReaderExit
    \/ ReadLineSeesDone
    \/ ReadLineJoin
    \/ ReadLineTimeout
    \/ OldReaderFinish
    \/ PollLine
    \/ WriterRun
    \/ SendLineTimeout
    \/ SendLineDone
    \/ OldWriterFinish
    \/ SendGameRet
    \/ SendEndRet

\* ------------------------------------------------------------------- main

\* A drop that reaps only the children it had to kill.
DropRunning ==
    [c \in Clients |-> IF child[c] = "running" THEN "reaped" ELSE child[c]]

\* Dropping the clients created so far: kill and wait on each child. kill()
\* reaches a running child and has nothing to do on one that has exited; its
\* result is dropped by ok(). wait() reaps the child in both cases.
DropAll ==
    [c \in Clients |->
        IF child[c] \in {"running", "exited"} THEN "reaped" ELSE child[c]]

\* main, the spawning loop: Client::new succeeds for the next program.
SpawnOk ==
    /\ pc = "spawn"
    /\ idx <= NumClients
    /\ child' = [child EXCEPT ![idx] = "running"]
    /\ idx' = idx + 1
    /\ ev' = NoEv
    /\ UNCHANGED <<pc, round, score, nums, winners, how, clientVars, call,
                   ioVars, oldVars, lastCall>>

\* main, the spawning loop: Client::new fails (the path does not resolve,
\* has no file name, or the spawn fails) and `?` returns the error. The
\* clients already pushed are kept until main is left.
SpawnFail ==
    /\ pc = "spawn"
    /\ idx <= NumClients
    /\ pc' = "return_err"
    /\ ev' = NoEv
    /\ UNCHANGED <<idx, round, score, nums, winners, child, how, clientVars,
                   call, ioVars, oldVars, lastCall>>

\* main after the spawning loop: score = vec![0; clients.len()], then
\* wait_ready is entered.
SpawnDone ==
    /\ pc = "spawn"
    /\ idx > NumClients
    /\ score' = [c \in Clients |-> 0]
    /\ pc' = "wait_ready"
    /\ idx' = 1
    /\ ev' = NoEv
    /\ UNCHANGED <<round, nums, winners, child, how, clientVars, call, ioVars,
                   oldVars, lastCall>>

\* wait_ready: client.poll() for the next client.
WaitReadyPoll ==
    /\ pc = "wait_ready"
    /\ PollCall(idx)
    /\ pc' = "is_init"
    /\ UNCHANGED <<idx, round, score, nums, winners, child, how>>

\* wait_ready: the is_init() check (a log line) after poll returned, and
\* after the last client the return to main, which enters the round loop.
WaitReadyNext ==
    /\ pc = "is_init"
    /\ call = NoCall
    /\ IF idx < NumClients
       THEN /\ idx' = idx + 1
            /\ pc' = "wait_ready"
       ELSE /\ idx' = 1
            /\ pc' = "round"
    /\ ev' = NoEv
    /\ lastCall' = NoLast
    /\ UNCHANGED <<round, score, nums, winners, child, how, clientVars, call,
                   ioVars, oldVars>>

\* main: for i in 0..config.rounds, entering play_round or leaving the loop.
RoundLoop ==
    /\ pc = "round"
    /\ pc' = IF round < Rounds THEN "send_game" ELSE "send_end"
    /\ idx' = 1
    /\ ev' = NoEv
    /\ UNCHANGED <<round, score, nums, winners, child, how, clientVars, call,
                   ioVars, oldVars, lastCall>>

\* play_round, first loop: client.send_game().
RoundSendGame ==
    /\ pc = "send_game"
    /\ SendGameCall(idx)
    /\ pc' = "poll"
    /\ UNCHANGED <<idx, round, score, nums, winners, child, how>>

\* play_round, first loop: client.poll().
RoundPoll ==
    /\ pc = "poll"
    /\ PollCall(idx)
    /\ pc' = "get_num"
    /\ UNCHANGED <<idx, round, score, nums, winners, child, how>>

\* play_round, first loop: nums.push(client.get_num()), then the next
\* client or the second loop.
RoundGetNum ==
    /\ pc = "get_num"
    /\ call = NoCall
    /\ nums' = Append(nums, num[idx])
    /\ how' = Append(how, [err |-> state[idx] = "Error"])
    /\ lastCall' = [fn |-> "get_num", c |-> idx, st |-> state[idx], res |-> "none"]
    /\ IF idx < NumClients
       THEN /\ idx' = idx + 1
            /\ pc' = "send_game"
       ELSE /\ idx' = 1
            /\ pc' = "send_nums"
    /\ ev' = NoEv
    /\ UNCHANGED <<round, score, winners, child, clientVars, call, ioVars,
                   oldVars>>

\* play_round, second loop: client.send_nums(&nums).
RoundSendNums ==
    /\ pc = "send_nums"
    /\ idx <= NumClients
    /\ SendNumsCall(idx, nums)
    /\ idx' = idx + 1
    /\ UNCHANGED <<pc, round, score, nums, winners, child, how>>

\* play_round after the second loop: the outcome is computed and returned.
RoundOutcome ==
    /\ pc = "send_nums"
    /\ idx > NumClients
    /\ call = NoCall
    /\ winners' = RoundWinners(nums)
    /\ pc' = "credit"
    /\ ev' = NoEv
    /\ lastCall' = NoLast
    /\ UNCHANGED <<idx, round, score, nums, child, how, clientVars, call,
                   ioVars, oldVars>>

\* A crediting that gives the point to the first client when the round has
\* no winner.
CreditFirstClient(w) ==
    IF w = <<>> THEN [score EXCEPT ![1] = @ + 1]
    ELSE [score EXCEPT ![w[1]] = @ + 1]

\* A crediting that gives a point to every survivor of the round.
CreditAll(w) ==
    [c \in DOMAIN score |->
        IF \E k \in 1..Len(w) : w[k] = c THEN score[c] + 1 ELSE score[c]]

\* The score list after main's match on outcome.winners.get(0).
Credit(w) == IF w = <<>> THEN score ELSE [score EXCEPT ![w[1]] = @ + 1]

\* main: the first winner, if any, is credited; the round is over and its
\* outcome dropped. (nums, a local of play_round, is kept up to here so that
\* the outcome can be read against it.)
RoundCredit ==
    /\ pc = "credit"
    /\ score' = Credit(winners)
    /\ round' = round + 1
    /\ pc' = "round"
    /\ nums' = <<>>
    /\ how' = <<>>
    /\ winners' = <<>>
    /\ ev' = NoEv
    /\ UNCHANGED <<idx, child, clientVars, call, ioVars, oldVars, lastCall>>

\* main, the last loop: clients[i].send_end() and the score line.
MainSendEnd ==
    /\ pc = "send_end"
    /\ idx <= NumClients
    /\ SendEndCall(idx)
    /\ idx' = idx + 1
    /\ UNCHANGED <<pc, round, score, nums, winners, child, how>>

\* main after the last loop: Ok(()) is the value to return.
MainReturn ==
    /\ pc = "send_end"
    /\ idx > NumClients
    /\ call = NoCall
    /\ pc' = "return_ok"
    /\ ev' = NoEv
    /\ lastCall' = NoLast
    /\ UNCHANGED <<idx, round, score, nums, winners, child, how, clientVars,
                   call, ioVars, oldVars>>

\* main is left, with Ok or with the error of a spawn: the clients made so
\* far go out of scope and Drop runs on each of them.
MainDrop ==
    /\ pc \in {"return_ok", "return_err"}
    /\ child' = DropAll
    /\ pc' = IF pc = "return_ok" THEN "exit_ok" ELSE "exit_err"
    /\ ev' = NoEv
    /\ UNCHANGED <<idx, round, score, nums, winners, how, clientVars, call,
                   ioVars, oldVars, lastCall>>

\* A competitor process exits by itself. Nothing reads the exit status of a
\* child before Drop does (there is no try_wait), so the exit is placed
\* where main is being left; what an earlier exit does to the pipes is
\* among the outcomes of ReaderRead and WriterRun.
ChildExits ==
    /\ pc \in {"return_ok", "return_err"}
    /\ \E c \in Clients :
        /\ child[c] = "running"
        /\ child' = [child EXCEPT ![c] = "exited"]
    /\ ev' = NoEv
    /\ UNCHANGED <<pc, idx, round, score, nums, winners, how, clientVars, call,
                   ioVars, oldVars, lastCall>>

MainStep ==
    \/ SpawnOk
    \/ SpawnFail
    \/ SpawnDone
    \/ WaitReadyPoll
    \/ WaitReadyNext
    \/ RoundLoop
    \/ RoundSendGame
    \/ RoundPoll
    \/ RoundGetNum
    \/ RoundSendNums
    \/ RoundOutcome
    \/ RoundCredit
    \/ MainSendEnd
    \/ MainReturn
    \/ MainDrop

Next == MainStep \/ ClientStep \/ ChildExits

\* The match: main from its start, with every behaviour of the competitors.
Spec == Init /\ [][Next]_vars

\* The steps of the orchestrator's own thread inside a Client method.
CallerStep ==
    \/ ReadLineSeesDone
    \/ ReadLineJoin
    \/ ReadLineTimeout
    \/ PollLine
    \/ SendLineTimeout
    \/ SendLineDone
    \/ SendGameRet
    \/ SendEndRet

\* The steps of a reader worker after its blocking read has returned.
WorkerStep == ReaderPublish \/ ReaderExit

\* The match with a scheduler that keeps running the threads that can run
\* and a clock that advances: a step of the orchestrator's thread that stays
\* possible, a deadline check included, is taken, and a worker whose read
\* has returned goes on. Nothing is assumed of the competitors, nor of the
\* blocking reads and writes themselves.
FairSpec ==
    Spec /\ WF_vars(MainStep \/ CallerStep) /\ WF_vars(WorkerStep)

\* --------------------------------------------- one client, called freely

\* The client the calls below are made on: the first.
ApiClient == CHOOSE c \in Clients : \A d \in Clients : c <= d

\* Arguments given to send_nums below.
NumsArgs == {<<<<0, 2>>>>, <<<<0, 5>>, U32Max>>}

\* Every client constructed (Client::new returned), no method called yet.
InitClient ==
    /\ pc = "api"
    /\ idx = 1
    /\ round = 0
    /\ score = <<>>
    /\ nums = <<>>
    /\ winners = <<>>
    /\ child = [c \in Clients |-> "running"]
    /\ how = <<>>
    /\ ClientsInit

ApiPoll ==
    /\ pc = "api"
    /\ PollCall(ApiClient)
    /\ UNCHANGED mainVars

ApiSendGame ==
    /\ pc = "api"
    /\ SendGameCall(ApiClient)
    /\ UNCHANGED mainVars

ApiSendEnd ==
    /\ pc = "api"
    /\ SendEndCall(ApiClient)
    /\ UNCHANGED mainVars

ApiSendNums ==
    /\ pc = "api"
    /\ \E v \in NumsArgs : SendNumsCall(ApiClient, v)
    /\ UNCHANGED mainVars

\* get_num: returns self.num, changes nothing.
ApiGetNum ==
    /\ pc = "api"
    /\ call = NoCall
    /\ lastCall' = [fn |-> "get_num", c |-> ApiClient, st |-> state[ApiClient],
                    res |-> "none"]
    /\ ev' = NoEv
    /\ UNCHANGED <<mainVars, clientVars, call, ioVars, oldVars>>

NextClient ==
    \/ ApiPoll
    \/ ApiSendGame
    \/ ApiSendEnd
    \/ ApiSendNums
    \/ ApiGetNum
    \/ ClientStep

\* A client driven by any sequence of calls of its public methods, one call
\* at a time, with every behaviour of its competitor.
SpecClient == InitClient /\ [][NextClient]_vars

\* ------------------------------------------------------------- properties

Two == <<0, 2>>
Five == <<0, 5>>

SendFns == {"send_game", "send_nums", "send_end"}

\* How many entries of v hold x.
Occurs(v, x) == Cardinality({j \in 1..Len(v) : v[j] = x})

\* Every value of v is held by at least two entries.
AllDuplicated(v) == \A i \in 1..Len(v) : Occurs(v, v[i]) >= 2

RECURSIVE SumSeq(_)
SumSeq(q) == IF q = <<>> THEN 0 ELSE Head(q) + SumSeq(Tail(q))

\* C1: when play_round has returned, the winners list holds exactly the
\* indices whose value was submitted once in the round, in strictly
\* ascending order of value; so its first entry, the scored winner, holds
\* the smallest value submitted exactly once, and if the values are pairwise
\* distinct it holds the overall minimum.
C1_WinnersUniqueAscending ==
    pc = "credit" =>
        /\ \A i \in 1..Len(nums) :
              (\E k \in 1..Len(winners) : winners[k] = i)
                  <=> Occurs(nums, nums[i]) = 1
        /\ \A k \in 1..Len(winners) : winners[k] \in 1..Len(nums)
        /\ \A k \in 1..(Len(winners) - 1) :
              U32Less(nums[winners[k]], nums[winners[k + 1]])
        /\ winners # <<>> =>
              \A i \in 1..Len(nums) :
                  Occurs(nums, nums[i]) = 1
                      => ~U32Less(nums[i], nums[winners[1]])
        /\ (\A i \in 1..Len(nums) : Occurs(nums, nums[i]) = 1) =>
              /\ winners # <<>>
              /\ \A i \in 1..Len(nums) : ~U32Less(nums[i], nums[winners[1]])

\* Scenario B: 5, 2, 2 were submitted and the first competitor won.
C1_ScenarioB ==
    /\ pc = "credit"
    /\ nums = <<Five, Two, Two>>
    /\ winners = <<1>>

\* C2: a round in which every submitted value is also submitted by another
\* competitor has no winner, and the step that ends it leaves every score
\* as it was.
C2_AllDuplicatedNoWinner ==
    [][(pc = "credit" /\ AllDuplicated(nums))
          => (winners = <<>> /\ score' = score)]_vars

\* A round in which every competitor submitted the real value 2.
C2_AllSubmittedTwo ==
    /\ pc = "credit"
    /\ Len(nums) = NumClients
    /\ \A i \in 1..Len(nums) : nums[i] = Two /\ ~how[i].err
    /\ winners = <<>>

\* C3: the scores change only at the end of a round, where at most one
\* entry changes, by +1; the round counter moves by one; and at any time
\* the scores sum to at most the number of rounds played.
C3_AtMostOneCredited ==
    /\ [](score # <<>> => SumSeq(score) <= round)
    /\ [][/\ (score # <<>> /\ score' # score) =>
                /\ round' = round + 1
                /\ \E c \in Clients : score' = [score EXCEPT ![c] = @ + 1]
          /\ round' # round => round' = round + 1]_vars

\* Every round of the match had a winner.
C3_EveryRoundScored ==
    /\ round = Rounds
    /\ score # <<>>
    /\ SumSeq(score) = Rounds

\* C4: in a round in which some client submitted a real value, the client
\* credited was not in Error when its value was collected.
C4_ErrorClientNeverWins ==
    (/\ pc = "credit"
     /\ winners # <<>>
     /\ \E i \in 1..Len(nums) : ~how[i].err /\ nums[i] # U32Max)
        => ~how[winners[1]].err

\* C5: under FairSpec a match whose clients were all spawned reaches the
\* final score report with the configured number of rounds played and no
\* Client method in progress. Every read_line and send_line call is made
\* between these two points, so each of them has returned, and each round
\* has completed.
C5_MatchTerminates ==
    (pc = "wait_ready") ~> (pc = "exit_ok" /\ round = Rounds /\ call = NoCall)

\* The match ended with a reader still blocked on a competitor that never
\* wrote and a writer still blocked on one that never read.
C5_EndedDespiteSilence ==
    /\ pc = "exit_ok"
    /\ round = Rounds
    /\ \E c \in Clients : rdOld[c]
    /\ \E c \in Clients : wrOld[c]

\* C6: no `end` line is written to a client that has been in Error.
C6_NoEndAfterError ==
    (ev # NoEv /\ ev.line = EndLine) => ~everErr[ev.c]

\* C7: when a send operation called on a non-Error client has returned and
\* its write timed out or failed, the client is in Error.
C7_FailedSendLeavesError ==
    (/\ call = NoCall
     /\ lastCall.fn \in SendFns
     /\ lastCall.st # "Error"
     /\ lastCall.res \in {"timeout", "fail"})
        => state[lastCall.c] = "Error"

\* C8: no step takes a client out of Error.
C8_ErrorAbsorbing ==
    [][\A c \in Clients : state[c] = "Error" => state'[c] = "Error"]_vars

\* C9: the step that calls a send operation on a client in Error returns at
\* once: no call is left in progress, no writer worker exists, nothing the
\* call wrote reaches the competitor, and state and num of every client are
\* as before.
C9_SendOnErrorIsNoOp ==
    [][(/\ call = NoCall
        /\ lastCall' # lastCall
        /\ lastCall'.fn \in SendFns
        /\ lastCall'.st = "Error")
          => /\ call' = NoCall
             /\ writer' = "none"
             /\ wline' = NoLine
             /\ wrOld' = wrOld
             /\ ev' = NoEv
             /\ state' = state
             /\ num' = num]_vars

\* send_nums has been called on a client in Error and has returned.
C9_SendNumsOnError ==
    /\ call = NoCall
    /\ lastCall.fn = "send_nums"
    /\ lastCall.st = "Error"
    /\ state[lastCall.c] = "Error"

\* C10: a reader worker is started only by the step that calls poll on a
\* client in Init or Step, so at most one per call; the step that calls poll
\* on a client in Error, Wait, PostStep or End returns at once, with no
\* worker started and state and num of every client as before.
C10_PollReadsOnlyInInitOrStep ==
    [][/\ (reader' = "blocked" /\ reader # "blocked") =>
             /\ call = NoCall
             /\ call'.fn = "poll"
             /\ call'.at = "read_line"
             /\ state[call'.c] \in {"Init", "Step"}
       /\ (/\ call = NoCall
           /\ lastCall' # lastCall
           /\ lastCall'.fn = "poll"
           /\ lastCall'.st \in {"Error", "Wait", "PostStep", "End"})
             => /\ call' = NoCall
                /\ reader' = "none"
                /\ rdOld' = rdOld
                /\ state' = state
                /\ num' = num]_vars

\* poll has been called on a client in PostStep and has returned.
C10_PolledInPostStep ==
    /\ call = NoCall
    /\ lastCall.fn = "poll"
    /\ lastCall.st = "PostStep"
    /\ state[lastCall.c] = "PostStep"

\* C11: when wait_ready has finished, a client whose reader worker is still
\* blocked in its first read (the competitor has written nothing and keeps
\* its output open) is in Init.
C11_SilentClientStillInit ==
    \A c \in Clients :
        (pc = "round" /\ round = 0 /\ rdOld[c]) => state[c] = "Init"

\* C12: get_num called on a client in Init, for which no value can have been
\* parsed yet (values are parsed in Step only, and no state leads back to
\* Init), returns the sentinel.
C12_GetNumBeforeParseIsSentinel ==
    (call = NoCall /\ lastCall.fn = "get_num" /\ lastCall.st = "Init")
        => num[lastCall.c] = U32Max

\* C13: when main has been left, normally or with the error of a spawn,
\* every client that had been created (all of them, or those before the
\* program whose spawn failed) has its child reaped, whatever its protocol
\* state and whether the child was still running or had already exited.
C13_EveryChildReaped ==
    /\ pc = "exit_ok" => \A c \in Clients : child[c] = "reaped"
    /\ pc = "exit_err" =>
          \A c \in Clients : child[c] = IF c < idx THEN "reaped" ELSE "none"
    /\ pc \in {"return_ok", "return_err"} =>
          \A c \in Clients : child[c] \in {"none", "running", "exited"}

\* main returned Ok with clients in Error and in End, all reaped.
C13_ReapedInErrorAndEnd ==
    /\ pc = "exit_ok"
    /\ \E c \in Clients : state[c] = "Error" /\ child[c] = "reaped"
    /\ \E c \in Clients : state[c] = "End" /\ child[c] = "reaped"

\* C14: when the setup of a competitor has failed, no client has been
\* created (no child was ever spawned) and no round has run.
C14_SetupFailureBeforeAnyClient ==
    pc \in {"return_err", "exit_err"} =>
        /\ \A c \in Clients : child[c] = "none"
        /\ round = 0
        /\ score = <<>>

\* C15: while an abandoned reader or writer worker of a client is still
\* running, no call on that client has a reader worker in its read or a
\* writer worker that has not finished.
C15_NoWorkerAfterAbandon ==
    \A c \in Clients :
        (rdOld[c] \/ wrOld[c]) =>
            ~(call.c = c /\ (reader = "blocked" \/ writer = "run"))

\* What a competitor reads in a line of values: the line without its
\* newline, split at the spaces, each word read as a u32.
RECURSIVE SplitWords(_, _)
SplitWords(s, cur) ==
    IF s = <<>> THEN <<cur>>
    ELSE IF Head(s) = " " THEN <<cur>> \o SplitWords(Tail(s), <<>>)
    ELSE SplitWords(Tail(s), Append(cur, Head(s)))

LineValues(line) ==
    LET words == SplitWords(SubSeq(line, 1, Len(line) - 1), <<>>)
    IN  [k \in 1..Len(words) |-> ParseU32(words[k])]

ProtocolTable ==
    {<<"Init", "Wait">>, <<"Wait", "Step">>, <<"Step", "PostStep">>,
     <<"PostStep", "Wait">>}
        \cup {<<s, "End">> : s \in {"Init", "Wait", "Step", "PostStep"}}

\* C17: in a match every step that changes the state of a client moves it
\* into Error or along the protocol table; the line `game` reaches only a
\* client that send_game found in Wait, a line of values only one that
\* send_nums found in PostStep; no client goes back to Init or leaves End.
C17_OnlyProtocolTransitions ==
    [][/\ \A c \in Clients :
             state'[c] # state[c] =>
                 /\ state'[c] = "Error" \/ <<state[c], state'[c]>> \in ProtocolTable
                 /\ state'[c] # "Init"
                 /\ state[c] # "End"
       /\ (ev' # NoEv /\ ev'.line = GameLine) => lastCall.st = "Wait"
       /\ (ev' # NoEv /\ ev'.line \notin {GameLine, EndLine}) =>
             lastCall.st = "PostStep"]_vars

\* C18: poll never reaches its unreachable!() arm: when read_line has
\* returned Ok inside poll, the client is in the state poll found it in,
\* which is Init or Step.
C18_UnreachableNotReached ==
    /\ call.at # "unreachable"
    /\ (call.fn = "poll" /\ call.at = "line" /\ ret.ok) =>
          /\ lastCall.fn = "poll"
          /\ lastCall.c = call.c
          /\ state[call.c] = lastCall.st
          /\ state[call.c] \in {"Init", "Step"}

\* read_line has returned Ok to a poll on a client in Step.
C18_LineReadInStep ==
    /\ call.fn = "poll"
    /\ call.at = "line"
    /\ ret.ok
    /\ state[call.c] = "Step"

\* C19: in read_line, once the caller has observed done the worker has
\* published its trimmed buffer and its error flag and has released the
\* state lock, so the join the caller makes while holding that lock
\* returns; and a read that failed with an I/O error is returned as Err,
\* with the client in Error, never as a line.
C19_DoneMeansPublished ==
    /\ [](call.at = "join" =>
            /\ reader = "exited"
            /\ stLock = "caller"
            /\ st.done
            /\ st.buf = Trim(rbuf)
            /\ st.error = rerr)
    /\ [](stLock = "worker" => reader = "done" /\ call.at = "read_line")
    /\ [][(call.at = "join" /\ rerr /\ call' # call) =>
              /\ call'.at = "line"
              /\ ~ret'.ok
              /\ state'[call.c] = "Error"]_vars

\* The caller has observed done after a read that failed with an I/O error.
C19_DoneSeenAfterIoError ==
    /\ call.fn = "poll"
    /\ call.at = "join"
    /\ rerr

\* The orchestrator's positions after wait_ready has returned.
AfterWaitReady ==
    {"round", "send_game", "poll", "get_num", "send_nums", "credit",
     "send_end", "return_ok", "exit_ok"}

\* C20: when poll has returned the client is in neither Init nor Step (from
\* Init it is in Wait or Error, from Step in PostStep or Error); so no
\* client is in Init once wait_ready has returned, and the value get_num
\* collects in a round is the sentinel of a client in Error or the value
\* the poll of that round parsed from the line it read in Step.
C20_PollLeavesInitAndStep ==
    /\ [](call = NoCall /\ lastCall.fn = "poll" =>
            /\ state[lastCall.c] \notin {"Init", "Step"}
            /\ lastCall.st = "Init" => state[lastCall.c] \in {"Wait", "Error"}
            /\ lastCall.st = "Step" => state[lastCall.c] \in {"PostStep", "Error"}
            /\ lastCall.st \notin {"Init", "Step"} => state[lastCall.c] = lastCall.st)
    /\ [](pc \in AfterWaitReady => \A c \in Clients : state[c] # "Init")
    /\ [](pc = "get_num" /\ call = NoCall =>
            /\ lastCall.fn = "poll"
            /\ lastCall.c = idx
            /\ state[idx] \in {"PostStep", "Error"}
            /\ state[idx] = "Error" => num[idx] = U32Max
            /\ state[idx] = "PostStep" => lastCall.st = "Step")
    /\ [][(call.fn = "poll" /\ call' = NoCall /\ state'[call.c] = "PostStep") =>
              /\ call.at = "line"
              /\ ret.ok
              /\ state[call.c] = "Step"
              /\ num'[call.c] = ParseU32(ret.line)]_vars

\* In the second round a value parsed in this round is about to be
\* collected, after a client that is in Error since an earlier poll.
C20_SecondRoundParsedAfterSentinel ==
    /\ pc = "get_num"
    /\ call = NoCall
    /\ round = 1
    /\ idx = 2
    /\ state[idx] = "PostStep"
    /\ num[idx] = Five
    /\ nums = <<U32Max>>

====
